---- MODULE Spec2Model ----
(***************************************************************************)
(* Model of matrix_operations::Matrix<T> (src/src/lib.rs): the constructor *)
(* family, transpose and the Add / Sub / Mul operator implementations.     *)
(*                                                                         *)
(* The scalar type T is modelled as the integers (i32 far from overflow):  *)
(* T::default() is 0 and +, -, * are integer arithmetic.  A Rust panic     *)
(* (explicit panic!, Option::unwrap on None, slice index out of bounds)    *)
(* is modelled as a call that returns no value: None.  A call that         *)
(* returns a matrix m yields Some(m).                                      *)
(*                                                                         *)
(* The state is a caller's session: two bound values lhs and rhs, and the  *)
(* record of the last call (its name, its from_data argument, its return). *)
(***************************************************************************)
EXTENDS Integers, Sequences, FiniteSets, TLC

\* ------------------------------------------------------------------------
\* Bounds of the explored inputs
\* ------------------------------------------------------------------------
\* largest row / column count passed to a dimension-taking constructor
MaxDim == 2
\* longest outer sequence passed to from_data
MaxRows == 2
\* longest inner sequence passed to from_data
MaxCols == 2
\* scalar arguments are 0 .. MaxVal
MaxVal == 2
\* how many times a session uses the result of an operation as an operand
MaxNest == 1

Vals == 0..MaxVal
Dims == (0..MaxDim) \X (0..MaxDim)

\* from_data arguments: every shape (row lengths, ragged ones and the empty
\* outer sequence included), filled with values that differ from cell to
\* cell, numbered along the rows (<<1, 2>>, <<3, 4>> for 2 x 2) or along the
\* columns (<<1, 3>>, <<2, 4>>)
Shapes == UNION {[1..n -> 0..MaxCols] : n \in 0..MaxRows}
Cell(fill, i, j) ==
    IF fill = "rows"
    THEN 1 + MaxCols * (i - 1) + (j - 1)
    ELSE 1 + (i - 1) + MaxRows * (j - 1)
DataOf(shape, fill) ==
    [i \in 1..Len(shape) |-> [j \in 1..shape[i] |-> Cell(fill, i, j)]]
Inputs == {DataOf(shape, fill) : shape \in Shapes, fill \in {"rows", "columns"}}

\* ------------------------------------------------------------------------
\* Option<Matrix<T>>: the outcome of a call
\* ------------------------------------------------------------------------
None == << >>
Some(m) == << m >>
IsSome(o) == Len(o) = 1
Get(o) == o[1]

\* T::default() for the integer scalar types
T_default == 0

Min(a, b) == IF a < b THEN a ELSE b

\* ------------------------------------------------------------------------
\* Constructors
\* ------------------------------------------------------------------------
Matrix(r, c, dim, d) == [rows |-> r, columns |-> c, dimension |-> dim, data |-> d]

data_from_zeroes(r, c) == [i \in 1..r |-> [j \in 1..c |-> T_default]]

data_from_constant(r, c, v) == [i \in 1..r |-> [j \in 1..c |-> v]]

\* from_data as it would be with the dimension pair built in the wrong order
from_data_swapped(data) ==
    IF Len(data) = 0
    THEN None
    ELSE LET rows == Len(data)
             columns == Len(data[1])
         IN  Some(Matrix(rows, columns, <<columns, rows>>, data))

\* from_data as it would be if it rejected rows that differ from the first
from_data_validating(data) ==
    IF Len(data) = 0 \/ \E i \in 1..Len(data) : Len(data[i]) # Len(data[1])
    THEN None
    ELSE LET rows == Len(data)
             columns == Len(data[1])
         IN  Some(Matrix(rows, columns, <<rows, columns>>, data))

\* data.get(0).unwrap() panics on an empty outer sequence; nothing else is
\* validated: columns is the length of the first row only
from_data(data) ==
    IF Len(data) = 0
    THEN None
    ELSE LET rows == Len(data)
             columns == Len(data[1])
         IN  Some(Matrix(rows, columns, <<rows, columns>>, data))

from_constant(dimension, constant) ==
    Matrix(dimension[1], dimension[2], dimension,
           data_from_constant(dimension[1], dimension[2], constant))

default_from_dimension(dimension) ==
    Matrix(dimension[1], dimension[2], dimension,
           data_from_zeroes(dimension[1], dimension[2]))

default_from_rows_and_columns(rows, columns) ==
    Matrix(rows, columns, <<rows, columns>>, data_from_zeroes(rows, columns))

\* the loop "for i in 0..min_dim { m.data[i][i] = constant }" over the
\* default-filled m
RECURSIVE FillDiagonal(_, _, _)
FillDiagonal(d, n, constant) ==
    IF n = 0
    THEN d
    ELSE LET prev == FillDiagonal(d, n - 1, constant)
         IN  [prev EXCEPT ![n][n] = constant]

\* diagonal_from_constant as it would be if the fill were not confined to
\* the diagonal
diagonal_from_constant_filled(dimension, constant) ==
    LET m == default_from_dimension(dimension)
    IN  [m EXCEPT !.data = data_from_constant(dimension[1], dimension[2], constant)]

diagonal_from_constant(dimension, constant) ==
    LET m == default_from_dimension(dimension)
        min_dim == Min(dimension[1], dimension[2])
    IN  [m EXCEPT !.data = FillDiagonal(m.data, min_dim, constant)]

default_diagonal(dimension) == diagonal_from_constant(dimension, T_default)

\* Default::default()
default == Matrix(3, 3, <<3, 3>>, data_from_zeroes(3, 3))

\* ------------------------------------------------------------------------
\* Operations
\* ------------------------------------------------------------------------
\* m.data[i][j] (1-based here) is inside the vectors: otherwise the read panics
InBounds(m, i, j) == i <= Len(m.data) /\ j <= Len(m.data[i])

transpose(self) ==
    IF \A i \in 1..self.rows : \A j \in 1..self.columns : InBounds(self, i, j)
    THEN LET t == default_from_dimension(<<self.columns, self.rows>>)
         IN  Some([t EXCEPT !.data =
                     [j \in 1..self.columns |->
                        [i \in 1..self.rows |-> self.data[i][j]]]])
    ELSE None

\* add as it would be if the guard compared the row counts only
add_rows_only(self, rhs) ==
    IF self.rows # rhs.rows
    THEN None
    ELSE IF \A i \in 1..self.rows : \A j \in 1..self.columns :
               InBounds(self, i, j) /\ InBounds(rhs, i, j)
         THEN LET r == default_from_dimension(self.dimension)
              IN  Some([r EXCEPT !.data =
                          [i \in 1..self.rows |->
                             [j \in 1..self.columns |->
                                self.data[i][j] + rhs.data[i][j]]]])
         ELSE None

add(self, rhs) ==
    IF self.dimension # rhs.dimension
    THEN None
    ELSE IF \A i \in 1..self.rows : \A j \in 1..self.columns :
               InBounds(self, i, j) /\ InBounds(rhs, i, j)
         THEN LET r == default_from_dimension(self.dimension)
              IN  Some([r EXCEPT !.data =
                          [i \in 1..self.rows |->
                             [j \in 1..self.columns |->
                                self.data[i][j] + rhs.data[i][j]]]])
         ELSE None

sub(self, rhs) ==
    IF self.dimension # rhs.dimension
    THEN None
    ELSE IF \A i \in 1..self.rows : \A j \in 1..self.columns :
               InBounds(self, i, j) /\ InBounds(rhs, i, j)
         THEN LET r == default_from_dimension(self.dimension)
              IN  Some([r EXCEPT !.data =
                          [i \in 1..self.rows |->
                             [j \in 1..self.columns |->
                                self.data[i][j] - rhs.data[i][j]]]])
         ELSE None

\* the inner loop over k in 0..self.columns, accumulating into the
\* default-filled cell (i, j) of resultant, in increasing k
RECURSIVE Accumulate(_, _, _, _, _)
Accumulate(self, rhs, i, j, k) ==
    IF k = 0
    THEN T_default
    ELSE Accumulate(self, rhs, i, j, k - 1) + self.data[i][k] * rhs.data[k][j]

mul(self, rhs) ==
    IF self.columns # rhs.rows
    THEN None
    ELSE IF \A i \in 1..self.rows : \A j \in 1..rhs.columns : \A k \in 1..self.columns :
               InBounds(self, i, k) /\ InBounds(rhs, k, j)
         THEN LET r == default_from_rows_and_columns(self.rows, rhs.columns)
              IN  Some([r EXCEPT !.data =
                          [i \in 1..self.rows |->
                             [j \in 1..rhs.columns |->
                                Accumulate(self, rhs, i, j, self.columns)]]])
         ELSE None

\* ------------------------------------------------------------------------
\* State
\* ------------------------------------------------------------------------
\* A session of a caller: it binds lhs, then rhs, to constructed matrices
\* and applies operations to them.  lhs and rhs are the bound values (None
\* while unbound), and after an operation its operands; out is what the last
\* call returned (None when it panicked); call names the last call; arg is
\* the argument of the last from_data call; nest counts the operations
\* applied to the result of an earlier operation.
VARIABLES lhs, rhs, out, call, arg, nest
vars == <<lhs, rhs, out, call, arg, nest>>

Constructors == {"from_data", "from_constant", "diagonal_from_constant",
                 "default_diagonal", "default_from_dimension",
                 "default_from_rows_and_columns", "default"}
Binary == {"add", "sub", "mul"}
Operations == Binary \cup {"transpose"}

Init ==
    /\ lhs = None
    /\ rhs = None
    /\ out = None
    /\ call = "none"
    /\ arg = << >>
    /\ nest = 0

\* a panic ends the session: nothing is called after a call returned nothing
Running == call = "none" \/ IsSome(out)

\* let lhs = <constructor call>; let rhs = <constructor call>: a session
\* binds lhs first, then rhs
CanBind == Running /\ (lhs = None \/ rhs = None)

\* a constructor that panics binds nothing
Bind(name, o) ==
    /\ call' = name
    /\ out' = o
    /\ nest' = nest
    /\ lhs' = IF lhs = None THEN o ELSE lhs
    /\ rhs' = IF lhs = None THEN rhs ELSE o

FromData ==
    /\ CanBind
    /\ \E data \in Inputs :
        /\ arg' = data
        /\ Bind("from_data", from_data(data))

FromConstant ==
    /\ CanBind
    /\ \E d \in Dims, v \in Vals :
        /\ arg' = << >>
        /\ Bind("from_constant", Some(from_constant(d, v)))

DiagonalFromConstant ==
    /\ CanBind
    /\ \E d \in Dims, v \in Vals :
        /\ arg' = << >>
        /\ Bind("diagonal_from_constant", Some(diagonal_from_constant(d, v)))

DefaultDiagonal ==
    /\ CanBind
    /\ \E d \in Dims :
        /\ arg' = << >>
        /\ Bind("default_diagonal", Some(default_diagonal(d)))

DefaultFromDimension ==
    /\ CanBind
    /\ \E d \in Dims :
        /\ arg' = << >>
        /\ Bind("default_from_dimension", Some(default_from_dimension(d)))

DefaultFromRowsAndColumns ==
    /\ CanBind
    /\ \E d \in Dims :
        /\ arg' = << >>
        /\ Bind("default_from_rows_and_columns",
                Some(default_from_rows_and_columns(d[1], d[2])))

Default ==
    /\ CanBind
    /\ arg' = << >>
    /\ Bind("default", Some(default))

\* The left operand of an operation is lhs, or the matrix the previous
\* operation returned (lhs op rhs op rhs ...), which nests the expression
\* one level deeper; the right operand is rhs.
LeftOperands ==
    {o \in {lhs} : IsSome(o)}
      \cup {o \in {out} : IsSome(o) /\ call \in Operations /\ nest < MaxNest}

Apply(name, p, o) ==
    /\ Running
    /\ nest' = IF p = lhs THEN nest ELSE nest + 1
    /\ lhs' = p
    /\ rhs' = rhs
    /\ out' = o
    /\ call' = name
    /\ arg' = << >>

Transpose ==
    \E p \in LeftOperands :
        Apply("transpose", p, transpose(Get(p)))

Add ==
    /\ IsSome(rhs)
    /\ \E p \in LeftOperands :
        Apply("add", p, add(Get(p), Get(rhs)))

Sub ==
    /\ IsSome(rhs)
    /\ \E p \in LeftOperands :
        Apply("sub", p, sub(Get(p), Get(rhs)))

Mul ==
    /\ IsSome(rhs)
    /\ \E p \in LeftOperands :
        Apply("mul", p, mul(Get(p), Get(rhs)))

Next ==
    \/ FromData
    \/ FromConstant
    \/ DiagonalFromConstant
    \/ DefaultDiagonal
    \/ DefaultFromDimension
    \/ DefaultFromRowsAndColumns
    \/ Default
    \/ Transpose
    \/ Add
    \/ Sub
    \/ Mul

Spec == Init /\ [][Next]_vars

\* ------------------------------------------------------------------------
\* Properties
\* ------------------------------------------------------------------------
\* invariant 2 of the data model: data.length == rows, every row.length == columns
Rectangular(m) ==
    /\ Len(m.data) = m.rows
    /\ \A i \in 1..Len(m.data) : Len(m.data[i]) = m.columns

\* every matrix the session holds
Values == {Get(o) : o \in {o \in {lhs, rhs, out} : IsSome(o)}}

A == Get(lhs)
B == Get(rhs)
R == Get(out)

\* C1: a mismatched pair never yields a result matrix: lhs + rhs and
\* lhs - rhs panic when the dimensions differ, lhs * rhs panics when
\* lhs.columns differs from rhs.rows.
C1_MismatchRejected ==
    /\ (call \in {"add", "sub"} /\ A.dimension # B.dimension) => out = None
    /\ (call = "mul" /\ A.columns # B.rows) => out = None

C1_Witness ==
    /\ call = "mul"
    /\ A.columns # B.rows
    /\ A.rows = B.rows
    /\ out = None

\* C2: every matrix reachable through the constructors and operations is
\* rectangular: data.length == rows and every row has length columns.
C2_Rectangular == \A m \in Values : Rectangular(m)

\* C3: every matrix reachable through the constructors and operations has
\* dimension == (rows, columns).
C3_DimensionCache == \A m \in Values : m.dimension = <<m.rows, m.columns>>

C3_Witness ==
    /\ call \in Operations
    /\ nest = MaxNest
    /\ IsSome(out)
    /\ R.rows # R.columns
    /\ R.rows > 0
    /\ R.columns > 0

\* the sum over k = 1 .. n of a(i,k) * b(k,j)
RECURSIVE DotProduct(_, _, _, _, _)
DotProduct(a, b, i, j, n) ==
    IF n = 0 THEN 0 ELSE DotProduct(a, b, i, j, n - 1) + a.data[i][n] * b.data[n][j]

\* C4: whenever lhs.columns == rhs.rows, lhs * rhs succeeds, has dimension
\* (lhs.rows, rhs.columns) and its cell (i, j) is the sum over k of
\* lhs(i,k) * rhs(k,j).
C4_MulIsMatrixProduct ==
    (call = "mul" /\ A.columns = B.rows) =>
        /\ IsSome(out)
        /\ R.dimension = <<A.rows, B.columns>>
        /\ R.rows = A.rows
        /\ R.columns = B.columns
        /\ Rectangular(R)
        /\ \A i \in 1..A.rows : \A j \in 1..B.columns :
               R.data[i][j] = DotProduct(A, B, i, j, A.columns)

\* C5: whenever lhs.dimension == rhs.dimension, lhs + rhs and lhs - rhs
\* succeed, have the dimension of lhs, and their cell (i, j) is
\* lhs(i,j) + rhs(i,j), respectively lhs(i,j) - rhs(i,j).
C5_AddSubElementwise ==
    (call \in {"add", "sub"} /\ A.dimension = B.dimension) =>
        /\ IsSome(out)
        /\ R.dimension = A.dimension
        /\ Rectangular(R)
        /\ \A i \in 1..A.rows : \A j \in 1..A.columns :
               R.data[i][j] = IF call = "add"
                              THEN A.data[i][j] + B.data[i][j]
                              ELSE A.data[i][j] - B.data[i][j]

\* C4 and C5 on operands that satisfy the rectangularity invariant
MulOnRectangular ==
    (call = "mul" /\ Rectangular(A) /\ Rectangular(B)) => C4_MulIsMatrixProduct
AddSubOnRectangular ==
    (call \in {"add", "sub"} /\ Rectangular(A) /\ Rectangular(B)) => C5_AddSubElementwise

\* C6: transposing twice gives the matrix back: when M has just been
\* transposed, the transpose of what was returned is M.
C6_TransposeInvolution ==
    call = "transpose" => (IsSome(out) /\ transpose(R) = lhs)

\* C7: M - M succeeds and equals default_from_dimension(M.dimension).
C7_SubSelfIsZero ==
    (call = "sub" /\ lhs = rhs) => out = Some(default_from_dimension(A.dimension))

\* C8: for a square dimension d and a scalar v,
\* from_constant(d, v) * diagonal_from_constant(d, 1) == from_constant(d, v)
\* and diagonal_from_constant(d, 1) * from_constant(d, v) == from_constant(d, v).
C8_MulIdentity ==
    call = "mul" =>
        \A n \in 0..MaxDim : \A v \in Vals :
            LET c == Some(from_constant(<<n, n>>, v))
                e == Some(diagonal_from_constant(<<n, n>>, 1))
            IN  ((lhs = c /\ rhs = e) \/ (lhs = e /\ rhs = c)) => out = c

C8_Witness ==
    /\ call = "mul"
    /\ lhs = Some(from_constant(<<MaxDim, MaxDim>>, MaxVal))
    /\ rhs = Some(diagonal_from_constant(<<MaxDim, MaxDim>>, 1))
    /\ out = lhs

\* C9: the transpose of a matrix of dimension (r, c) has rows == c,
\* columns == r, dimension == (c, r), and its cell (j, i) is the cell (i, j)
\* of the matrix.
C9_TransposeShape ==
    call = "transpose" =>
        /\ IsSome(out)
        /\ R.rows = A.columns
        /\ R.columns = A.rows
        /\ R.dimension = <<A.dimension[2], A.dimension[1]>>
        /\ \A i \in 1..A.rows : \A j \in 1..A.columns :
               R.data[j][i] = A.data[i][j]

\* C6, C7 and C9 on a matrix that satisfies the rectangularity invariant
TransposeOnRectangular ==
    (call = "transpose" /\ Rectangular(A)) => (C6_TransposeInvolution /\ C9_TransposeShape)
SubSelfOnRectangular ==
    (call = "sub" /\ Rectangular(A)) => C7_SubSelfIsZero

\* C10: from_data panics on an empty outer sequence; on a non-empty one it
\* succeeds whatever the later rows are, with rows the number of rows,
\* columns the length of the first row and data the argument unchanged.
C10_FromDataUnvalidated ==
    call = "from_data" =>
        IF arg = << >>
        THEN out = None
        ELSE /\ IsSome(out)
             /\ R.rows = Len(arg)
             /\ R.columns = Len(arg[1])
             /\ R.data = arg

C10_Witness ==
    /\ call = "from_data"
    /\ IsSome(out)
    /\ ~Rectangular(R)
    /\ \E i \in 1..Len(arg) : Len(arg[i]) > Len(arg[1])
    /\ R.data = arg

====
